---- MODULE Spec2Model ----
(***************************************************************************)
(* Comment threads and comment votes of the story reader.                  *)
(*                                                                         *)
(* The story document (one Firestore document per story) holds the array   *)
(* of episodes; every episode holds its array of comments and every        *)
(* comment its likes and dislikes arrays.  StorageService.addComment and   *)
(* StorageService.toggleCommentVote read the whole document (getDoc), map  *)
(* over the episodes in memory and write the whole episodes array back     *)
(* (updateDoc).  StoryView's CommentTree renders the flat comments array   *)
(* of the open episode as a forest by filtering on parentId.               *)
(*                                                                         *)
(* The specifications share the variables:                                 *)
(*   Spec      the StorageService calls run one after the other            *)
(*   SpecTree  CommentTree applied to bounded comment collections          *)
(*   SpecConc  invocations whose getDoc and updateDoc steps interleave     *)
(*   SpecClock SpecConc's addComment invocations with an advancing clock   *)
(*   SpecFail  SpecConc with a store whose getDoc and updateDoc may reject *)
(*   SpecView  one StoryView: its effects and handlers over the store      *)
(*   SpecStale StoryView while the user's second session votes             *)
(*   SpecRender    the recursive CommentTree calls of one render, one by one *)
(*   SpecUnknown   Spec with addComment on unknown stories and episodes      *)
(*   SpecOverwrite the seven read-modify-write methods interleaving          *)
(*   SpecReload    StoryView's view increment across reloads                 *)
(*   SpecRoute     the App's routes and ProtectedRoute                       *)
(*   SpecDraft     StoryView while the user prop changes                     *)
(*   SpecLike      toggleLike calls run one after the other                  *)
(***************************************************************************)
EXTENDS Integers, Sequences, FiniteSets, TLC

\* ------------------------------------------------------------- bounds
\* Number of signed-in users that vote (user ids 1..NumUsers).
NumUsers == 2

\* SpecTree: the longest comments array handed to CommentTree.
TreeMaxLen == 3

\* SpecView: the StorageService calls one StoryView makes.
ViewCalls == 2

\* SpecTree: the createdAt values (Date.now() at creation) are in 1..MaxTime.
MaxTime == 2

\* SpecConc: the number of StorageService invocations that may overlap.
NumCalls == 2

\* Ids that doc(collection(db, 'stories')).id hands out for new comments.
CommentIds == {"c1", "c2"}

Users == 1..NumUsers

VoteTypes == {"like", "dislike"}

\* The two episodes of story s1.
EpisodeIds == {"e1", "e2"}

\* parentId: null of handleComment (parentId || null).
Null == "null"

\* A parentId that is the id of no comment.
NoSuchId == "zzz"

\* parentId of a stored comment that has no parentId field (parentId?: ...).
Undefined == "undefined"

VARIABLES
  stories,   \* the 'stories' collection: story id -> document data
  issued,    \* comment ids handed out so far
  now,       \* Date.now()
  last,      \* the StorageService call that ran last, with the collection before it
  twice,     \* set when the last two calls were the same comment vote
  calls,     \* SpecConc: the invocations in flight
  version,   \* SpecConc: number of updateDoc writes applied to the collection
  comments,  \* SpecTree: the comments prop of CommentTree
  forest,    \* SpecTree: what CommentTree rendered
  rendered,  \* SpecTree: whether CommentTree has run
  view,      \* SpecView: the state of the StoryView component
  walk,      \* SpecRender: the CommentTree calls still to run, and how many were made
  app,       \* SpecRoute: the state of the App component and its router
  toggled    \* SpecLike: the <<episode id, user id>> pairs toggled an odd number of times

vars == <<stories, issued, now, last, twice, calls, version, comments, forest, rendered, view, walk, app, toggled>>

\* ------------------------------------------------------------- arrays
\* Array.prototype.includes
includes(arr, x) == \E i \in 1..Len(arr) : arr[i] = x

\* arr.filter(id => id !== x)
without(arr, x) == SelectSeq(arr, LAMBDA id : id # x)

\* arr.push(x) / [...arr, x]
push(arr, x) == Append(arr, x)

\* The members of an array, and whether an element occurs more than once.
members(arr) == {arr[i] : i \in 1..Len(arr)}

occurrences(arr, x) == Cardinality({i \in 1..Len(arr) : arr[i] = x})

\* ------------------------------------------------------------- records
\* The id of a user whose role is ADMIN; the users of Users are the author of
\* story s1 and readers.
Admin == NumUsers + 1

UserRole(userId) ==
  IF userId = 1 THEN "AUTHOR" ELSE IF userId = Admin THEN "ADMIN" ELSE "READER"

\* createEpisode's record, after the author published it or not.
Episode(id, status) ==
  [id |-> id, storyId |-> "s1", title |-> "title", content |-> "content",
   createdAt |-> 0, updatedAt |-> 0, likes |-> <<>>, comments |-> <<>>,
   status |-> status, views |-> 0]

\* handleComment's newCommentData.
CommentData(episodeId, userId, parentId) ==
  [episodeId |-> episodeId, userId |-> userId, username |-> userId,
   userRole |-> UserRole(userId), content |-> "text", parentId |-> parentId]

\* addComment's newComment: the caller's data, a fresh id, the time, no votes.
NewComment(commentData, id, createdAt) ==
  [id |-> id, episodeId |-> commentData.episodeId, userId |-> commentData.userId,
   username |-> commentData.username, userRole |-> commentData.userRole,
   content |-> commentData.content, createdAt |-> createdAt,
   parentId |-> commentData.parentId, likes |-> <<>>, dislikes |-> <<>>]

\* ------------------------------------------------------------- the store
NoDoc == [exists |-> FALSE]

\* getDoc(doc(db, 'stories', storyId)): the snapshot of the document.
Snapshot(coll, storyId) ==
  IF storyId \in DOMAIN coll
    THEN [exists |-> TRUE, episodes |-> coll[storyId].episodes]
    ELSE NoDoc

\* updateDoc(storyDocRef, { episodes }): replaces the episodes field.
Updated(coll, storyId, eps) == [coll EXCEPT ![storyId].episodes = eps]

\* ------------------------------------------------------------- votes
\* Variants of toggleVote with one slip each.
\* Adding a vote does not remove the user from the opposite array.
toggleVoteKeepsOpposite(comment, userId, voteType) ==
  IF voteType = "like"
    THEN IF includes(comment.likes, userId)
           THEN [comment EXCEPT !.likes = without(comment.likes, userId)]
           ELSE [comment EXCEPT !.likes = push(comment.likes, userId)]
    ELSE IF includes(comment.dislikes, userId)
           THEN [comment EXCEPT !.dislikes = without(comment.dislikes, userId)]
           ELSE [comment EXCEPT !.dislikes = push(comment.dislikes, userId)]

\* A vote is pushed without looking whether the user is already in the array.
toggleVoteAlwaysPushes(comment, userId, voteType) ==
  IF voteType = "like"
    THEN [comment EXCEPT !.likes = push(comment.likes, userId),
                         !.dislikes = without(comment.dislikes, userId)]
    ELSE [comment EXCEPT !.dislikes = push(comment.dislikes, userId),
                         !.likes = without(comment.likes, userId)]

\* A user found in either array is taken out of both; only a user in neither is added.
toggleVoteClearsAnyVote(comment, userId, voteType) ==
  IF includes(comment.likes, userId) \/ includes(comment.dislikes, userId)
    THEN [comment EXCEPT !.likes = without(comment.likes, userId),
                         !.dislikes = without(comment.dislikes, userId)]
    ELSE IF voteType = "like"
           THEN [comment EXCEPT !.likes = push(comment.likes, userId)]
           ELSE [comment EXCEPT !.dislikes = push(comment.dislikes, userId)]

\* Taking a vote back moves the user to the opposite array.
toggleVoteUnvoteSwitches(comment, userId, voteType) ==
  IF voteType = "like"
    THEN IF includes(comment.likes, userId)
           THEN [comment EXCEPT !.likes = without(comment.likes, userId),
                                !.dislikes = push(comment.dislikes, userId)]
           ELSE [comment EXCEPT !.likes = push(comment.likes, userId),
                                !.dislikes = without(comment.dislikes, userId)]
    ELSE IF includes(comment.dislikes, userId)
           THEN [comment EXCEPT !.dislikes = without(comment.dislikes, userId),
                                !.likes = push(comment.likes, userId)]
           ELSE [comment EXCEPT !.dislikes = push(comment.dislikes, userId),
                                !.likes = without(comment.likes, userId)]

\* A vote once given stays: voting again does not take it back.
toggleVoteMonotonic(comment, userId, voteType) ==
  IF voteType = "like"
    THEN IF includes(comment.likes, userId)
           THEN comment
           ELSE [comment EXCEPT !.likes = push(comment.likes, userId),
                                !.dislikes = without(comment.dislikes, userId)]
    ELSE IF includes(comment.dislikes, userId)
           THEN comment
           ELSE [comment EXCEPT !.dislikes = push(comment.dislikes, userId),
                                !.likes = without(comment.likes, userId)]

\* A vote is put at the front of the array (unshift instead of push).
toggleVotePrepends(comment, userId, voteType) ==
  IF voteType = "like"
    THEN IF includes(comment.likes, userId)
           THEN [comment EXCEPT !.likes = without(comment.likes, userId)]
           ELSE [comment EXCEPT !.likes = <<userId>> \o comment.likes,
                                !.dislikes = without(comment.dislikes, userId)]
    ELSE IF includes(comment.dislikes, userId)
           THEN [comment EXCEPT !.dislikes = without(comment.dislikes, userId)]
           ELSE [comment EXCEPT !.dislikes = <<userId>> \o comment.dislikes,
                                !.likes = without(comment.likes, userId)]

\* The body of the comment map in toggleCommentVote, for the comment voted on.
toggleVote(comment, userId, voteType) ==
  IF voteType = "like"
    THEN IF includes(comment.likes, userId)
           THEN [comment EXCEPT !.likes = without(comment.likes, userId)]
           ELSE [comment EXCEPT !.likes = push(comment.likes, userId),
                                !.dislikes = without(comment.dislikes, userId)]
    ELSE IF includes(comment.dislikes, userId)
           THEN [comment EXCEPT !.dislikes = without(comment.dislikes, userId)]
           ELSE [comment EXCEPT !.dislikes = push(comment.dislikes, userId),
                                !.likes = without(comment.likes, userId)]

\* Variant of voteComments without the test on the comment id.
voteCommentsEvery(cs, commentId, userId, voteType) ==
  [j \in 1..Len(cs) |-> toggleVote(cs[j], userId, voteType)]

\* ep.comments.map(...) of toggleCommentVote.
voteComments(cs, commentId, userId, voteType) ==
  [j \in 1..Len(cs) |->
     IF cs[j].id = commentId THEN toggleVote(cs[j], userId, voteType) ELSE cs[j]]

\* story.episodes.map(...) of toggleCommentVote.
voteEpisodes(eps, episodeId, commentId, userId, voteType) ==
  [i \in 1..Len(eps) |->
     IF eps[i].id = episodeId
       THEN [eps[i] EXCEPT !.comments = voteComments(@, commentId, userId, voteType)]
       ELSE eps[i]]

\* Variant of addEpisodes that falls back to the first episode when no episode
\* has the id.
addEpisodesFallback(eps, episodeId, newComment) ==
  [i \in 1..Len(eps) |->
     IF \/ eps[i].id = episodeId
        \/ (i = 1 /\ \A j \in 1..Len(eps) : eps[j].id # episodeId)
       THEN [eps[i] EXCEPT !.comments = push(@, newComment)]
       ELSE eps[i]]

\* Variant of addEpisodes that puts the new comment first.
addEpisodesPrepends(eps, episodeId, newComment) ==
  [i \in 1..Len(eps) |->
     IF eps[i].id = episodeId
       THEN [eps[i] EXCEPT !.comments = <<newComment>> \o @]
       ELSE eps[i]]

\* story.episodes.map(...) of addComment.
addEpisodes(eps, episodeId, newComment) ==
  [i \in 1..Len(eps) |->
     IF eps[i].id = episodeId
       THEN [eps[i] EXCEPT !.comments = push(@, newComment)]
       ELSE eps[i]]

\* ------------------------------------------------------------- lookups
\* Every comment stored in a collection, whatever its story and episode.
StoredComments(coll) ==
  UNION {members(ep.comments) :
           ep \in UNION {members(coll[s].episodes) : s \in DOMAIN coll}}

\* The comments of a collection with the given episode and comment id.
Found(coll, storyId, episodeId, commentId) ==
  IF storyId \notin DOMAIN coll THEN {}
  ELSE {c \in UNION {members(ep.comments) :
                       ep \in {x \in members(coll[storyId].episodes) : x.id = episodeId}} :
          c.id = commentId}

\* ------------------------------------------------------------- Spec
NoCall == [op |-> "none"]

\* No StoryView is mounted.
NoView == [mounted |-> FALSE]

\* No CommentTree call is pending.
NoWalk == [pending |-> <<>>, made |-> 0]

\* No App is mounted.
NoApp == [mounted |-> FALSE]

InitStore ==
  /\ stories = [s \in {"s1"} |->
                  [episodes |-> <<Episode("e1", "published"), Episode("e2", "draft")>>]]
  /\ issued = {}
  /\ now = 1
  /\ last = NoCall
  /\ twice = NoCall
  /\ toggled = {}

InitIdle ==
  /\ calls = <<>>
  /\ version = 0
  /\ view = NoView

InitNoTree ==
  /\ comments = <<>>
  /\ forest = <<>>
  /\ rendered = FALSE
  /\ walk = NoWalk
  /\ app = NoApp

Init == InitStore /\ InitIdle /\ InitNoTree

\* StorageService.addComment, run from its first line to the end of updateDoc.
addComment(storyId, episodeId, commentData, id) ==
  LET newComment == NewComment(commentData, id, now)
      storyDoc == Snapshot(stories, storyId)
  IN /\ id \notin issued
     /\ issued' = issued \cup {id}
     /\ stories' = IF storyDoc.exists
                     THEN Updated(stories, storyId,
                                  addEpisodes(storyDoc.episodes, episodeId, newComment))
                     ELSE stories
     /\ last' = [op |-> "addComment", storyId |-> storyId, episodeId |-> episodeId,
                 commentId |-> id, userId |-> commentData.userId, voteType |-> "none",
                 commentData |-> commentData, before |-> stories]
     /\ twice' = NoCall
     /\ UNCHANGED <<now, calls, version, comments, forest, rendered, view, walk, app, toggled>>

\* StorageService.toggleCommentVote, run from getDoc to the end of updateDoc.
toggleCommentVote(storyId, episodeId, commentId, userId, voteType) ==
  LET storyDoc == Snapshot(stories, storyId)
      call == [op |-> "toggleCommentVote", storyId |-> storyId,
               episodeId |-> episodeId, commentId |-> commentId, userId |-> userId,
               voteType |-> voteType, before |-> stories]
  IN /\ stories' = IF storyDoc.exists
                     THEN Updated(stories, storyId,
                                  voteEpisodes(storyDoc.episodes, episodeId, commentId,
                                               userId, voteType))
                     ELSE stories
     /\ last' = call
     /\ twice' = IF /\ last.op = "toggleCommentVote"
                    /\ [last EXCEPT !.before = stories] = call
                   THEN last
                   ELSE NoCall
     /\ UNCHANGED <<issued, now, calls, version, comments, forest, rendered, view, walk, app, toggled>>

\* Variant of ParentArgs: any id, also one no comment carries yet.
ParentArgsAnyId(episodeId) == {Null} \cup CommentIds

\* What handleComment can pass as parentId: null, or the id of a rendered comment.
ParentArgs(episodeId) ==
  {Null} \cup {c.id : c \in {d \in StoredComments(stories) : d.episodeId = episodeId}}

AddCommentStep ==
  \E id \in CommentIds, parentId \in ParentArgs("e1") :
    addComment("s1", "e1", CommentData("e1", 1, parentId), id)

\* Votes of handleVote: any signed-in user, either button, on episode e1 of story s1.
ToggleCommentVoteStep ==
  \E commentId \in CommentIds, userId \in Users, voteType \in VoteTypes :
    toggleCommentVote("s1", "e1", commentId, userId, voteType)

\* Targets that name no story, no episode, or an episode without the comment.
UnknownTargets == {<<"s404", "e1">>, <<"s1", "e404">>, <<"s1", "e2">>}

UnknownTargetStep ==
  \E target \in UnknownTargets, voteType \in VoteTypes :
    toggleCommentVote(target[1], target[2], "c1", 1, voteType)

Next == AddCommentStep \/ ToggleCommentVoteStep \/ UnknownTargetStep

Spec == Init /\ [][Next]_vars

\* ------------------------------------------------------------- claims on Spec
\* The comment the last call named, before the call and after it.
LastBefore == IF last.op = "none" THEN {}
              ELSE Found(last.before, last.storyId, last.episodeId, last.commentId)

LastAfter == IF last.op = "none" THEN {}
             ELSE Found(stories, last.storyId, last.episodeId, last.commentId)

LastIsVote(voteType) == last.op = "toggleCommentVote" /\ last.voteType = voteType

\* The array a vote type toggles, and the opposite one.
voted(comment, voteType) == IF voteType = "like" THEN comment.likes ELSE comment.dislikes

opposite(comment, voteType) == IF voteType = "like" THEN comment.dislikes ELSE comment.likes

\* C1: after any sequence of toggleCommentVote calls on comments created by
\* addComment, no user id is in both likes and dislikes of a comment.
MutualExclusivity ==
  \A c \in StoredComments(stories) : members(c.likes) \cap members(c.dislikes) = {}

\* C1 witness: a user who had disliked a comment has just liked it, while the
\* comment carries a vote in each array.
MutualExclusivityWitness ==
  /\ LastIsVote("like")
  /\ \E b \in LastBefore, a \in LastAfter :
       /\ includes(b.dislikes, last.userId)
       /\ a.likes # <<>>
       /\ a.dislikes # <<>>

\* C2 as stated: two toggleCommentVote calls in a row with the same userId and
\* voteType leave the likes and dislikes of the comment as they were before the
\* first call, whatever the state before it.
DoubleApplicationIsIdentity ==
  twice # NoCall =>
    \A b \in Found(twice.before, twice.storyId, twice.episodeId, twice.commentId),
       a \in LastAfter :
      /\ members(a.likes) = members(b.likes)
      /\ members(a.dislikes) = members(b.dislikes)

\* C2 amended: two toggleCommentVote calls in a row with the same userId and
\* voteType give back the same likes and dislikes sets when the user was not in
\* the opposite array before the first call (the very same arrays when the user
\* was in neither); when the user was in the opposite array, the two calls leave
\* the user in neither array and change nothing else.
DoubleApplication ==
  twice # NoCall =>
    \A b \in Found(twice.before, twice.storyId, twice.episodeId, twice.commentId) :
      /\ LastAfter # {}
      /\ \A a \in LastAfter :
           IF includes(opposite(b, twice.voteType), twice.userId)
             THEN /\ a.likes = without(b.likes, twice.userId)
                  /\ a.dislikes = without(b.dislikes, twice.userId)
             ELSE /\ members(a.likes) = members(b.likes)
                  /\ members(a.dislikes) = members(b.dislikes)
                  /\ opposite(a, twice.voteType) = opposite(b, twice.voteType)
                  /\ ~includes(voted(b, twice.voteType), twice.userId) =>
                       voted(a, twice.voteType) = voted(b, twice.voteType)

\* C2 witness: a user with a vote in the array of the vote type, beside another
\* user's vote, has toggled that vote type twice in a row.
DoubleApplicationWitness ==
  /\ twice # NoCall
  /\ \E b \in Found(twice.before, twice.storyId, twice.episodeId, twice.commentId) :
       /\ includes(voted(b, twice.voteType), twice.userId)
       /\ Len(voted(b, twice.voteType)) >= 2
       /\ LastAfter # {}

\* C3: a like by a user who is in dislikes leaves the user in likes and not in
\* dislikes; a dislike by a user who is in likes leaves the user in dislikes and
\* not in likes.
SwitchBehaviour ==
  \A voteType \in VoteTypes :
    LastIsVote(voteType) =>
      \A b \in LastBefore :
        includes(opposite(b, voteType), last.userId) =>
          /\ LastAfter # {}
          /\ \A a \in LastAfter :
               /\ includes(voted(a, voteType), last.userId)
               /\ ~includes(opposite(a, voteType), last.userId)

\* C3 witness: a user who was in likes has just disliked the comment.
SwitchBehaviourWitness ==
  /\ LastIsVote("dislike")
  /\ \E b \in LastBefore : includes(b.likes, last.userId)
  /\ \E a \in LastAfter : includes(a.dislikes, last.userId)

\* C7: after any sequence of toggleCommentVote calls on comments created by
\* addComment, a user id occurs at most once in likes and at most once in
\* dislikes of every comment.
Uniqueness ==
  \A c \in StoredComments(stories), u \in Users :
    /\ occurrences(c.likes, u) <= 1
    /\ occurrences(c.dislikes, u) <= 1

\* C7 witness: a user who was not in likes has just liked a comment, and every
\* user is now in its likes, the voter once.
UniquenessWitness ==
  /\ LastIsVote("like")
  /\ \E b \in LastBefore, a \in LastAfter :
       /\ ~includes(b.likes, last.userId)
       /\ occurrences(a.likes, last.userId) = 1
       /\ members(a.likes) = Users

\* C8: taking a like back removes the user from likes and leaves dislikes as it
\* was; taking a dislike back removes the user from dislikes and leaves likes as
\* it was.
UnvoteKeepsOpposite ==
  \A voteType \in VoteTypes :
    LastIsVote(voteType) =>
      \A b \in LastBefore :
        includes(voted(b, voteType), last.userId) =>
          /\ LastAfter # {}
          /\ \A a \in LastAfter :
               /\ ~includes(voted(a, voteType), last.userId)
               /\ voted(a, voteType) = without(voted(b, voteType), last.userId)
               /\ opposite(a, voteType) = opposite(b, voteType)

\* C8 witness: a user has taken a like back on a comment that another user
\* dislikes.
UnvoteKeepsOppositeWitness ==
  /\ LastIsVote("like")
  /\ \E b \in LastBefore, a \in LastAfter :
       /\ includes(b.likes, last.userId)
       /\ b.dislikes # <<>>
       /\ a.dislikes = b.dislikes

\* ------------------------------------------------------------- SpecTree
\* The id of the i-th comment of a collection handed to CommentTree.
TreeId(i) == <<"c1", "c2", "c3", "c4", "c5", "c6">>[i]

\* A stored comment as CommentTree reads it: id, parentId and createdAt matter.
TreeComment(i, parentId, createdAt) ==
  NewComment(CommentData("e1", 1, parentId), TreeId(i), createdAt)

\* The parentId values of a collection of n comments: null, absent, no comment's
\* id, or the id of a comment of the collection.
TreeParents(n) == {Null, Undefined, NoSuchId} \cup {TreeId(k) : k \in 1..n}

\* Variant of filterByParent comparing with ==, under which an absent parentId
\* equals null.
filterByParentLoose(cs, parentId) ==
  SelectSeq(cs, LAMBDA c :
    \/ c.parentId = parentId
    \/ (parentId = Null /\ c.parentId = Undefined))

\* comments.filter(c => c.parentId === parentId)
filterByParent(cs, parentId) == SelectSeq(cs, LAMBDA c : c.parentId = parentId)

\* Variant of insertByCreatedAt that puts x before the elements it ties with.
RECURSIVE insertByCreatedAtTiesFirst(_, _)
insertByCreatedAtTiesFirst(sorted, x) ==
  IF sorted = <<>> THEN <<x>>
  ELSE IF sorted[Len(sorted)].createdAt - x.createdAt < 0
         THEN Append(sorted, x)
         ELSE Append(insertByCreatedAtTiesFirst(SubSeq(sorted, 1, Len(sorted) - 1), x),
                     sorted[Len(sorted)])

\* One step of the stable sort: x goes behind every element that does not compare
\* greater ((a, b) => a.createdAt - b.createdAt is <= 0).
RECURSIVE insertByCreatedAt(_, _)
insertByCreatedAt(sorted, x) ==
  IF sorted = <<>> THEN <<x>>
  ELSE IF sorted[Len(sorted)].createdAt - x.createdAt <= 0
         THEN Append(sorted, x)
         ELSE Append(insertByCreatedAt(SubSeq(sorted, 1, Len(sorted) - 1), x),
                     sorted[Len(sorted)])

\* arr.sort((a, b) => a.createdAt - b.createdAt): Array.prototype.sort is stable.
RECURSIVE sortByCreatedAt(_)
sortByCreatedAt(arr) ==
  IF arr = <<>> THEN <<>>
  ELSE insertByCreatedAt(sortByCreatedAt(SubSeq(arr, 1, Len(arr) - 1)), arr[Len(arr)])

\* Variants of childComments with one slip each.
\* The siblings are left in the order of the comments array.
childCommentsUnsorted(cs, parentId) == filterByParent(cs, parentId)

\* A comment whose parentId names no comment is shown at the top level.
childCommentsPromoteOrphans(cs, parentId) ==
  sortByCreatedAt(SelectSeq(cs, LAMBDA c :
    \/ c.parentId = parentId
    \/ /\ parentId = Null
       /\ \A k \in 1..Len(cs) : cs[k].id # c.parentId))

\* childComments of CommentTree.
childComments(cs, parentId) == sortByCreatedAt(filterByParent(cs, parentId))

\* Variant of CommentTree that renders no replies below a comment.
CommentTreeTopLevelOnly(cs, parentId) ==
  LET children == childComments(cs, parentId)
  IN [i \in 1..Len(children) |-> [comment |-> children[i], replies |-> <<>>]]

\* CommentTree: the rendered nodes for parentId, each with the CommentTree of its
\* own id below it; <<>> where the component returns null.
RECURSIVE CommentTree(_, _)
CommentTree(cs, parentId) ==
  LET children == childComments(cs, parentId)
  IN IF Len(children) = 0 THEN <<>>
     ELSE [i \in 1..Len(children) |->
             [comment |-> children[i], replies |-> CommentTree(cs, children[i].id)]]

\* The comment arrays of up to TreeMaxLen comments with distinct ids, any parentId
\* and any createdAt in 1..MaxTime.
InitTree ==
  /\ InitStore
  /\ InitIdle
  /\ \E n \in 0..TreeMaxLen :
       \E parentId \in [1..n -> TreeParents(n)], createdAt \in [1..n -> 1..MaxTime] :
         comments = [i \in 1..n |-> TreeComment(i, parentId[i], createdAt[i])]
  /\ forest = <<>>
  /\ rendered = FALSE
  /\ walk = NoWalk
  /\ app = NoApp

\* <CommentTree comments={activeEpisode.comments} /> (parentId defaults to null).
Render ==
  /\ ~rendered
  /\ forest' = CommentTree(comments, Null)
  /\ rendered' = TRUE
  /\ UNCHANGED <<stories, issued, now, last, twice, calls, version, comments, view, walk, app, toggled>>

NextTree == Render

SpecTree == InitTree /\ [][NextTree]_vars

\* ------------------------------------------------------------- claims on SpecTree
\* The rendered comments of a forest, top down and in display order.
RECURSIVE flatten(_)
flatten(f) ==
  IF f = <<>> THEN <<>>
  ELSE <<f[1].comment>> \o flatten(f[1].replies) \o flatten(SubSeq(f, 2, Len(f)))

\* The nodes of a forest, and the sibling rows of a forest.
RECURSIVE nodes(_)
nodes(f) == members(f) \cup UNION {nodes(f[i].replies) : i \in 1..Len(f)}

RECURSIVE rows(_)
rows(f) == {f} \cup UNION {rows(f[i].replies) : i \in 1..Len(f)}

\* Whether following parentId from a comment reaches null within n steps.
RECURSIVE reachesNull(_, _, _)
reachesNull(cs, parentId, n) ==
  \/ parentId = Null
  \/ /\ n > 0
     /\ \E k \in 1..Len(cs) :
          cs[k].id = parentId /\ reachesNull(cs, cs[k].parentId, n - 1)

resolves(cs, parentId) == \E k \in 1..Len(cs) : cs[k].id = parentId

\* The forest has one node per comment and every node's replies are exactly the
\* comments whose parentId is the node's id.
Reconstructed ==
  /\ Len(flatten(forest)) = Len(comments)
  /\ \A node \in nodes(forest) :
       LET replies == {c \in members(comments) : c.parentId = node.comment.id}
       IN /\ {r.comment : r \in members(node.replies)} = replies
          /\ Len(node.replies) = Cardinality(replies)

OrphanExclusion ==
  rendered =>
    \A k \in 1..Len(comments) :
      (comments[k].parentId # Null /\ ~resolves(comments, comments[k].parentId))
        => ~includes(flatten(forest), comments[k])

\* C5 witness: a rendered collection with an orphan beside a comment that is
\* shown, the orphan itself not shown.
OrphanExclusionWitness ==
  /\ rendered
  /\ forest # <<>>
  /\ \E k \in 1..Len(comments) :
       /\ comments[k].parentId = NoSuchId
       /\ ~includes(flatten(forest), comments[k])

\* C6: at every level of the forest the comments with the same parentId appear
\* in non-decreasing createdAt order.
SiblingOrdering ==
  rendered =>
    \A row \in rows(forest) :
      \A i, j \in 1..Len(row) :
        i < j => row[i].comment.createdAt <= row[j].comment.createdAt

\* C6 witness: two replies to one comment are shown oldest first although the
\* newer one comes first in the comments array.
SiblingOrderingWitness ==
  /\ rendered
  /\ \E row \in rows(forest) :
       /\ Len(row) >= 2
       /\ row[1].comment.parentId # Null
       /\ row[1].comment.createdAt < row[2].comment.createdAt
       /\ \E i, j \in 1..Len(comments) :
            i < j /\ comments[i] = row[2].comment /\ comments[j] = row[1].comment

\* C23: for a collection with unique ids, a comment is in the forest exactly
\* once when following parentId from it reaches a comment whose parentId is null,
\* and not at all otherwise: descendants of orphans, members of cycles and
\* comments without a parentId field are left out.
Visibility ==
  rendered =>
    \A i \in 1..Len(comments) :
      occurrences(flatten(forest), comments[i]) =
        IF reachesNull(comments, comments[i].parentId, Len(comments)) THEN 1 ELSE 0

\* C23 witness: a top-level comment is shown; a comment without parentId field
\* and a reply to it are not.
VisibilityWitness ==
  /\ rendered
  /\ Len(flatten(forest)) = 1
  /\ \E i, j \in 1..Len(comments) :
       /\ comments[i].parentId = Undefined
       /\ comments[j].parentId = comments[i].id
       /\ i # j

\* The index of a comment in the comments prop.
position(c) == CHOOSE k \in 1..Len(comments) : comments[k].id = c.id

\* C20: siblings with equal createdAt are shown in the order they have in the
\* comments array.
TieBreak ==
  rendered =>
    \A row \in rows(forest) :
      \A i, j \in 1..Len(row) :
        (i < j /\ row[i].comment.createdAt = row[j].comment.createdAt)
          => position(row[i].comment) < position(row[j].comment)

\* C20 witness: two siblings have the same createdAt, an older sibling stands
\* behind them in the comments array and is shown before them.
TieBreakWitness ==
  /\ rendered
  /\ \E row \in rows(forest) :
       /\ Len(row) = 3
       /\ row[1].comment.createdAt < row[2].comment.createdAt
       /\ row[2].comment.createdAt = row[3].comment.createdAt
       /\ position(row[1].comment) > position(row[3].comment)

\* ------------------------------------------------------------- SpecRender
\* The recursion of CommentTree call by call: the root call with parentId = null
\* is pending; every call filters and sorts its comments and renders one
\* CommentTree per comment it shows.
\* Variant of nextCall that passes the comment's parentId down.
nextCallParent(comment) == comment.parentId

\* <CommentTree comments={comments} parentId={comment.id} />
nextCall(comment) == comment.id

\* The comment arrays of up to TreeMaxLen comments with distinct ids and any
\* parentId; createdAt plays no part in which calls are made.
InitRender ==
  /\ InitStore
  /\ calls = <<>>
  /\ version = 0
  /\ view = NoView
  /\ \E n \in 0..TreeMaxLen :
       \E parentId \in [1..n -> TreeParents(n)] :
         comments = [i \in 1..n |-> TreeComment(i, parentId[i], 1)]
  /\ forest = <<>>
  /\ rendered = FALSE
  /\ walk = [pending |-> <<Null>>, made |-> 1]
  /\ app = NoApp

\* The first pending call runs: it returns null when it has no comments to show,
\* and otherwise leaves one call per comment, which React runs before the calls
\* of the comment's later siblings. The forest is complete when no call is left.
callCommentTree ==
  LET parentId == Head(walk.pending)
      children == childComments(comments, parentId)
      below == [i \in 1..Len(children) |-> nextCall(children[i])]
      left == below \o Tail(walk.pending)
  IN /\ walk.pending # <<>>
     /\ walk' = [pending |-> left, made |-> walk.made + Len(children)]
     /\ rendered' = (left = <<>>)
     /\ forest' = IF left = <<>> THEN CommentTree(comments, Null) ELSE forest
     /\ UNCHANGED <<stories, issued, now, last, twice, calls, version, comments, view, app, toggled>>

NextRender == callCommentTree

SpecRender == InitRender /\ [][NextRender]_vars /\ WF_vars(NextRender)

\* C24: the recursion of CommentTree from parentId = null ends for every
\* collection with unique ids, self-references and cycles included: at most one
\* call per comment is made besides the root call and the rendering completes;
\* an empty collection yields an empty forest.
Termination ==
  /\ [](walk.made <= Len(comments) + 1)
  /\ [](rendered /\ comments = <<>> => forest = <<>>)
  /\ <>rendered

\* C24 witness: the rendering of a collection with a comment that is its own
\* parent and a top-level comment with a reply has completed after three calls.
TerminationWitness ==
  /\ rendered
  /\ walk.made = 3
  /\ \E i \in 1..Len(comments) : comments[i].parentId = comments[i].id

\* ------------------------------------------------------------- SpecConc
\* An invocation of addComment or toggleCommentVote is a promise that runs up to
\* `await getDoc`, resumes with the snapshot, computes the episodes array to write
\* and runs up to `await updateDoc`; the store applies reads and writes of
\* different invocations in any order.
Calls == 1..NumCalls

Idle == [pc |-> "idle"]

\* The k-th invocation is made once the k-1 before it have been made.
canInvoke(k) ==
  /\ calls[k].pc = "idle"
  /\ \A j \in 1..(k - 1) : calls[j].pc # "idle"

\* Episode e1 with two top-level comments of user 1, as two addComment calls leave it.
InitConc ==
  /\ stories = [s \in {"s1"} |->
                  [episodes |->
                     <<[Episode("e1", "published") EXCEPT !.comments =
                          <<NewComment(CommentData("e1", 1, Null), "c1", 1),
                            NewComment(CommentData("e1", 1, Null), "c2", 1)>>],
                       Episode("e2", "draft")>>]]
  /\ issued = {"c1", "c2"}
  /\ now = 1
  /\ last = NoCall
  /\ twice = NoCall
  /\ toggled = {}
  /\ calls = [k \in Calls |-> Idle]
  /\ version = 0
  /\ view = NoView
  /\ InitNoTree

\* toggleCommentVote up to `await getDoc(storyDocRef)`.
invokeToggleCommentVote(k, storyId, episodeId, commentId, userId, voteType) ==
  /\ canInvoke(k)
  /\ calls' = [calls EXCEPT ![k] =
                 [pc |-> "getDoc", op |-> "toggleCommentVote", storyId |-> storyId,
                  episodeId |-> episodeId, commentId |-> commentId, userId |-> userId,
                  voteType |-> voteType]]
  /\ UNCHANGED <<stories, issued, now, last, twice, version, comments, forest, rendered, view, walk, app, toggled>>

\* addComment up to `await getDoc(storyDocRef)`: newComment is built first.
invokeAddComment(k, storyId, episodeId, commentData, id) ==
  /\ canInvoke(k)
  /\ id \notin issued
  /\ issued' = issued \cup {id}
  /\ calls' = [calls EXCEPT ![k] =
                 [pc |-> "getDoc", op |-> "addComment", storyId |-> storyId,
                  episodeId |-> episodeId, commentId |-> id,
                  newComment |-> NewComment(commentData, id, now)]]
  /\ UNCHANGED <<stories, now, last, twice, version, comments, forest, rendered, view, walk, app, toggled>>

\* Variant of likeEpisodes that never removes a like.
likeEpisodesAlwaysPushes(eps, episodeId, userId) ==
  [i \in 1..Len(eps) |->
     IF eps[i].id = episodeId THEN [eps[i] EXCEPT !.likes = push(@, userId)] ELSE eps[i]]

\* story.episodes.map(...) of toggleLike.
likeEpisodes(eps, episodeId, userId) ==
  [i \in 1..Len(eps) |->
     IF eps[i].id = episodeId
       THEN [eps[i] EXCEPT !.likes = IF includes(@, userId) THEN without(@, userId)
                                                            ELSE push(@, userId)]
       ELSE eps[i]]

\* story.episodes.map(...) of incrementEpisodeView.
viewEpisodes(eps, episodeId) ==
  [i \in 1..Len(eps) |->
     IF eps[i].id = episodeId THEN [eps[i] EXCEPT !.views = @ + 1] ELSE eps[i]]

\* story.episodes.map(...) of updateEpisode.
updateEpisodes(eps, episodeId, updates, updatedAt) ==
  [i \in 1..Len(eps) |->
     IF eps[i].id = episodeId
       THEN [eps[i] EXCEPT !.title = updates.title, !.content = updates.content,
                           !.updatedAt = updatedAt]
       ELSE eps[i]]

\* story.episodes.filter(ep => ep.id !== episodeId) of deleteEpisode.
deleteEpisodes(eps, episodeId) == SelectSeq(eps, LAMBDA ep : ep.id # episodeId)

\* story.episodes.map(...) of toggleEpisodeStatus.
statusEpisodes(eps, episodeId) ==
  [i \in 1..Len(eps) |->
     IF eps[i].id = episodeId
       THEN [eps[i] EXCEPT !.status = IF @ = "published" THEN "draft" ELSE "published"]
       ELSE eps[i]]

\* The map an invocation applies to an episodes array.
change(call, eps) ==
  CASE call.op = "addComment" -> addEpisodes(eps, call.episodeId, call.newComment)
    [] call.op = "toggleCommentVote" ->
         voteEpisodes(eps, call.episodeId, call.commentId, call.userId, call.voteType)
    [] call.op = "toggleLike" -> likeEpisodes(eps, call.episodeId, call.userId)
    [] call.op = "incrementEpisodeView" -> viewEpisodes(eps, call.episodeId)
    [] call.op = "updateEpisode" ->
         updateEpisodes(eps, call.episodeId, call.updates, call.updatedAt)
    [] call.op = "deleteEpisode" -> deleteEpisodes(eps, call.episodeId)
    [] call.op = "toggleEpisodeStatus" -> statusEpisodes(eps, call.episodeId)

\* Variant of computed: the map is applied to the episodes the component shows.
computedOnRendered(call, storyDoc) == change(call, view.story[1].episodes)

\* The episodes array an invocation computes from the snapshot it was given.
computed(call, storyDoc) == change(call, storyDoc.episodes)

\* getDoc resolves: the invocation maps over the snapshot's episodes and issues
\* updateDoc, or returns when the document does not exist.
getDoc(k) ==
  LET call == calls[k]
      storyDoc == Snapshot(stories, call.storyId)
  IN /\ call.pc = "getDoc"
     /\ calls' = [calls EXCEPT ![k] =
                    IF storyDoc.exists
                      THEN [field \in DOMAIN call \cup {"snapshot", "episodes", "readAt"} |->
                              CASE field = "pc" -> "updateDoc"
                                [] field = "snapshot" -> storyDoc.episodes
                                [] field = "episodes" -> computed(call, storyDoc)
                                [] field = "readAt" -> version
                                [] OTHER -> call[field]]
                      ELSE [call EXCEPT !.pc = "done"]]
     /\ UNCHANGED <<stories, issued, now, last, twice, version, comments, forest, rendered, view, walk, app, toggled>>

\* Variant of written: only the episode the call names is written, into the
\* episodes the document holds by now.
writtenEpisodeOnly(coll, call) ==
  LET cur == coll[call.storyId].episodes
  IN [i \in 1..Len(cur) |->
        IF cur[i].id = call.episodeId /\ \E j \in 1..Len(call.episodes) :
                                           call.episodes[j].id = call.episodeId
          THEN call.episodes[CHOOSE j \in 1..Len(call.episodes) :
                               call.episodes[j].id = call.episodeId]
          ELSE cur[i]]

\* Variant of written: the likes and the dislikes written are merged, array by
\* array, with those the document holds (what arrayUnion on each would do).
writtenMerged(coll, call) ==
  LET cur == coll[call.storyId].episodes
      union(a, b) == a \o SelectSeq(b, LAMBDA x : ~includes(a, x))
  IN [i \in 1..Len(call.episodes) |->
        [call.episodes[i] EXCEPT !.comments =
           [j \in 1..Len(call.episodes[i].comments) |->
              LET new == call.episodes[i].comments[j]
              IN IF i <= Len(cur) /\ j <= Len(cur[i].comments)
                   THEN [new EXCEPT !.likes = union(cur[i].comments[j].likes, new.likes),
                                    !.dislikes = union(cur[i].comments[j].dislikes,
                                                       new.dislikes)]
                   ELSE new]]]

\* Variant of written: the episodes are computed again from the document as it is
\* when the write is applied (what a transaction would do).
writtenOnCurrent(coll, call) == computed(call, Snapshot(coll, call.storyId))

\* What updateDoc(storyDocRef, { episodes }) writes: the array computed from the
\* snapshot, whatever the document holds by now.
written(coll, call) == call.episodes

\* The store applies the write: the episodes field is replaced.
updateDoc(k) ==
  LET call == calls[k]
  IN /\ call.pc = "updateDoc"
     /\ stories' = Updated(stories, call.storyId, written(stories, call))
     /\ version' = version + 1
     /\ calls' = [calls EXCEPT ![k] =
                    [field \in DOMAIN call \cup {"wroteAt"} |->
                       CASE field = "pc" -> "done"
                         [] field = "wroteAt" -> version + 1
                         [] OTHER -> call[field]]]
     /\ UNCHANGED <<issued, now, last, twice, comments, forest, rendered, view, walk, app, toggled>>

\* The id addComment draws in the k-th invocation.
IdOf(k) == <<"c3", "c4", "c5", "c6">>[k]

InvokeVote ==
  \E k \in Calls, commentId \in {"c1", "c2"}, userId \in Users, voteType \in VoteTypes :
    invokeToggleCommentVote(k, "s1", "e1", commentId, userId, voteType)

InvokeComment ==
  \E k \in Calls, parentId \in ParentArgs("e1") :
    invokeAddComment(k, "s1", "e1", CommentData("e1", 1, parentId), IdOf(k))

GetDoc == \E k \in Calls : getDoc(k)

UpdateDoc == \E k \in Calls : updateDoc(k)

NextConc == InvokeVote \/ InvokeComment \/ GetDoc \/ UpdateDoc

SpecConc == InitConc /\ [][NextConc]_vars

\* ------------------------------------------------------------- claims on SpecConc
\* The episodes array of story s1 in the store.
EpisodesStored == stories["s1"].episodes

\* The invocation has returned after writing.
wrote(a) == calls[a].pc = "done" /\ "wroteAt" \in DOMAIN calls[a]

\* Two invocations overlap: each read the document before the other's write.
overlap(a, b) ==
  /\ wrote(a) /\ wrote(b)
  /\ calls[a].readAt < calls[b].wroteAt
  /\ calls[b].readAt < calls[a].wroteAt

\* Both read, then both wrote, a first and b last of all writes so far.
bothReadThenBothWrote(a, b) ==
  /\ wrote(a) /\ wrote(b)
  /\ calls[a].readAt = calls[b].readAt
  /\ calls[a].wroteAt = calls[a].readAt + 1
  /\ calls[b].wroteAt = calls[a].readAt + 2
  /\ version = calls[b].wroteAt

\* Where the user of a vote stands in a comment: "like", "dislike" or "none".
standing(comment, userId) ==
  IF includes(comment.likes, userId) THEN "like"
  ELSE IF includes(comment.dislikes, userId) THEN "dislike" ELSE "none"

\* The comments an invocation's snapshot and the store hold under its comment id.
inSnapshot(a) ==
  Found([s \in {calls[a].storyId} |-> [episodes |-> calls[a].snapshot]],
        calls[a].storyId, calls[a].episodeId, calls[a].commentId)

inStore(a) == Found(stories, calls[a].storyId, calls[a].episodeId, calls[a].commentId)

\* The change an invocation made to its snapshot is in the store.
reflected(a) ==
  IF calls[a].op = "addComment"
    THEN inStore(a) = {calls[a].newComment}
    ELSE /\ inStore(a) # {}
         /\ \A before \in inSnapshot(a), stored \in inStore(a) :
              standing(stored, calls[a].userId) =
                standing(toggleVote(before, calls[a].userId, calls[a].voteType),
                         calls[a].userId)

\* The store holds the invocation's comment as its snapshot had it: its vote is
\* not there, or the comment it added is not there.
absent(a) ==
  IF calls[a].op = "addComment"
    THEN inStore(a) = {}
    ELSE /\ inSnapshot(a) # {}
         /\ inStore(a) = inSnapshot(a)

\* C9: when two different users' toggleCommentVote invocations on the same
\* comment overlap, the comment stored after both reflects both users' votes.
ConcurrentVotesBothReflected ==
  \A a, b \in Calls :
    ( /\ a # b
      /\ overlap(a, b)
      /\ version \in {calls[a].wroteAt, calls[b].wroteAt}
      /\ calls[a].op = "toggleCommentVote" /\ calls[b].op = "toggleCommentVote"
      /\ calls[a].commentId = calls[b].commentId
      /\ calls[a].userId # calls[b].userId )
    => reflected(a) /\ reflected(b)

\* C10: when two invocations on different comments of one episode both read and
\* then both write, the later write replaces the whole episodes array and the
\* change of the earlier invocation is absent from the stored state.
LostUpdateOnDisjointComments ==
  \A a, b \in Calls :
    ( /\ a # b
      /\ bothReadThenBothWrote(a, b)
      /\ calls[a].storyId = calls[b].storyId
      /\ calls[a].episodeId = calls[b].episodeId
      /\ calls[a].commentId # calls[b].commentId )
    => /\ stories[calls[b].storyId].episodes = calls[b].episodes
       /\ absent(a)
       /\ reflected(b)

\* C10 witness: a comment was added and a vote given on another comment of the
\* episode, both having read first; the vote was written last and the added
\* comment is gone.
LostUpdateOnDisjointCommentsWitness ==
  \E a, b \in Calls :
    /\ a # b
    /\ bothReadThenBothWrote(a, b)
    /\ calls[a].op = "addComment"
    /\ calls[b].op = "toggleCommentVote"
    /\ calls[a].episodeId = calls[b].episodeId
    /\ calls[a].commentId # calls[b].commentId
    /\ absent(a)
    /\ reflected(b)

\* C17: when two toggleCommentVote invocations of one user with the same vote type
\* on the same comment both read a comment without the user's id in that array,
\* the comment stored after both writes holds the user's id exactly once in it,
\* whichever write came last.
SameUserRace ==
  \A a, b \in Calls :
    ( /\ a # b
      /\ wrote(a) /\ wrote(b)
      /\ version \in {calls[a].wroteAt, calls[b].wroteAt}
      /\ calls[a].op = "toggleCommentVote" /\ calls[b].op = "toggleCommentVote"
      /\ calls[a].commentId = calls[b].commentId
      /\ calls[a].userId = calls[b].userId
      /\ calls[a].voteType = calls[b].voteType
      /\ \A c \in inSnapshot(a) \cup inSnapshot(b) :
           ~includes(voted(c, calls[a].voteType), calls[a].userId) )
    => /\ inStore(a) # {}
       /\ \A stored \in inStore(a) :
            /\ occurrences(voted(stored, calls[a].voteType), calls[a].userId) = 1
            /\ ~includes(opposite(stored, calls[a].voteType), calls[a].userId)

\* C17 witness: both invocations of the user read the comment before either
\* wrote, and both have written.
SameUserRaceWitness ==
  \E a, b \in Calls :
    /\ a # b
    /\ bothReadThenBothWrote(a, b)
    /\ calls[a].op = "toggleCommentVote" /\ calls[b].op = "toggleCommentVote"
    /\ calls[a].commentId = calls[b].commentId
    /\ calls[a].userId = calls[b].userId
    /\ calls[a].voteType = calls[b].voteType
    /\ \A c \in inSnapshot(a) : ~includes(voted(c, calls[a].voteType), calls[a].userId)
    /\ \E stored \in inStore(a) : voted(stored, calls[a].voteType) = <<calls[a].userId>>

\* C22: however the reads and writes of toggleCommentVote and addComment
\* invocations interleave, every stored comment has no user id in both likes and
\* dislikes and no user id twice in either array.
WellFormedUnderInterleaving ==
  \A c \in StoredComments(stories) :
    /\ \A u \in Users : ~(includes(c.likes, u) /\ includes(c.dislikes, u))
    /\ \A u \in Users : occurrences(c.likes, u) <= 1 /\ occurrences(c.dislikes, u) <= 1

\* C22 witness: a like and a dislike of one user on one comment both read before
\* either wrote; the like was written first and is gone, the dislike is stored.
WellFormedUnderInterleavingWitness ==
  \E a, b \in Calls :
    /\ a # b
    /\ bothReadThenBothWrote(a, b)
    /\ calls[a].op = "toggleCommentVote" /\ calls[b].op = "toggleCommentVote"
    /\ calls[a].commentId = calls[b].commentId
    /\ calls[a].userId = calls[b].userId
    /\ calls[a].voteType = "like" /\ calls[b].voteType = "dislike"
    /\ \A c \in inStore(b) : c.likes = <<>> /\ c.dislikes = <<calls[b].userId>>
    /\ inStore(b) # {}

\* ------------------------------------------------------------- SpecOverwrite
\* Invocations of the seven StorageService methods that read the story document
\* and write its episodes array back, by user 1 on story s1.
\* toggleLike, incrementEpisodeView, toggleEpisodeStatus and deleteEpisode up to
\* `await getDoc(storyDocRef)`.
invokeEpisodeMethod(k, op, episodeId) ==
  /\ canInvoke(k)
  /\ calls' = [calls EXCEPT ![k] =
                 [pc |-> "getDoc", op |-> op, storyId |-> "s1", episodeId |-> episodeId,
                  commentId |-> Null, userId |-> 1]]
  /\ UNCHANGED <<stories, issued, now, last, twice, version, comments, forest, rendered,
                 view, walk, app, toggled>>

\* updateEpisode up to `await getDoc(storyDocRef)`. updatedAt is Date.now() of
\* the moment the map runs; the clock of this specification stands still.
invokeUpdateEpisode(k, episodeId, updates) ==
  /\ canInvoke(k)
  /\ calls' = [calls EXCEPT ![k] =
                 [pc |-> "getDoc", op |-> "updateEpisode", storyId |-> "s1",
                  episodeId |-> episodeId, commentId |-> Null, updates |-> updates,
                  updatedAt |-> now]]
  /\ UNCHANGED <<stories, issued, now, last, twice, version, comments, forest, rendered,
                 view, walk, app, toggled>>

EpisodeMethods == {"toggleLike", "incrementEpisodeView", "toggleEpisodeStatus", "deleteEpisode"}

InvokeEpisodeMethod ==
  \E k \in Calls, op \in EpisodeMethods, episodeId \in EpisodeIds :
    invokeEpisodeMethod(k, op, episodeId)

InvokeUpdateEpisode ==
  \E k \in Calls, episodeId \in EpisodeIds :
    invokeUpdateEpisode(k, episodeId, [title |-> "title2", content |-> "content2"])

InvokeVoteOnFirst ==
  \E k \in Calls : invokeToggleCommentVote(k, "s1", "e1", "c1", 1, "like")

InvokeTopLevelComment ==
  \E k \in Calls : invokeAddComment(k, "s1", "e1", CommentData("e1", 1, Null), IdOf(k))

NextOverwrite ==
  \/ InvokeEpisodeMethod
  \/ InvokeUpdateEpisode
  \/ InvokeVoteOnFirst
  \/ InvokeTopLevelComment
  \/ GetDoc
  \/ UpdateDoc

SpecOverwrite == InitConc /\ [][NextOverwrite]_vars

\* C26: each of the seven methods writes back the whole episodes array it
\* computed from its snapshot: when two invocations, of whatever kinds and on
\* whatever episodes of the story, both read and then both write, the store holds
\* the later writer's change applied to the common snapshot and nothing of the
\* earlier writer's change.
WholeStoryOverwrite ==
  \A a, b \in Calls :
    (a # b /\ bothReadThenBothWrote(a, b)) =>
      /\ calls[a].snapshot = calls[b].snapshot
      /\ EpisodesStored = change(calls[b], calls[a].snapshot)

\* C26 witness: a view increment of episode e2 read before a comment was added
\* to episode e1 and wrote after it: the comment is not stored.
WholeStoryOverwriteWitness ==
  \E a, b \in Calls :
    /\ a # b
    /\ bothReadThenBothWrote(a, b)
    /\ calls[a].op = "addComment" /\ calls[a].episodeId = "e1"
    /\ calls[b].op = "incrementEpisodeView" /\ calls[b].episodeId = "e2"
    /\ \A c \in StoredComments(stories) : c.id # calls[a].commentId
    /\ \E i \in 1..Len(EpisodesStored) : EpisodesStored[i].views = 1

\* ------------------------------------------------------------- SpecClock
\* The invocations of addComment of SpecConc with a clock that advances: each
\* invocation stamps createdAt = Date.now() when it builds newComment, before
\* `await getDoc`.
Tick ==
  /\ now < MaxTime
  /\ now' = now + 1
  /\ UNCHANGED <<stories, issued, last, twice, calls, version, comments, forest, rendered, view, walk, app, toggled>>

NextClock == Tick \/ InvokeComment \/ GetDoc \/ UpdateDoc

SpecClock == InitConc /\ [][NextClock]_vars

\* C18: after any sequence of addComment operations, interleaved or not, the
\* comments array of every episode is in non-decreasing createdAt order.
StoredOrderedByCreatedAt ==
  \A i \in 1..Len(EpisodesStored) :
    LET cs == EpisodesStored[i].comments
    IN \A j, k \in 1..Len(cs) : j < k => cs[j].createdAt <= cs[k].createdAt

\* ------------------------------------------------------------- SpecFail
\* The invocations of SpecConc against a store whose getDoc and updateDoc may
\* reject. addComment and toggleCommentVote await both without try / catch.
StoreErrors == {"unavailable", "permission-denied"}

\* Variants of onFailure: the rejection is caught and the method returns; the
\* method starts over with another getDoc.
onFailureSwallowed(call, error) == [call EXCEPT !.pc = "done"]

onFailureRetried(call, error) == [call EXCEPT !.pc = "getDoc"]

\* An awaited store call rejects inside the async method: the method's own
\* promise rejects with the same error and nothing after the await runs.
onFailure(call, error) ==
  [field \in DOMAIN call \cup {"error"} |->
     CASE field = "pc" -> "rejected"
       [] field = "error" -> error
       [] OTHER -> call[field]]

\* The store rejects the call the invocation is waiting for; `raised` records
\* what the store raised. A rejected updateDoc writes nothing.
storeFails(k, error) ==
  LET call == onFailure(calls[k], error)
  IN /\ calls' = [calls EXCEPT ![k] =
                    [field \in DOMAIN call \cup {"raised"} |->
                       IF field = "raised" THEN error ELSE call[field]]]
     /\ UNCHANGED <<stories, issued, now, last, twice, version, comments, forest, rendered, view, walk, app, toggled>>

GetDocFails ==
  \E k \in Calls, error \in StoreErrors :
    calls[k].pc = "getDoc" /\ "raised" \notin DOMAIN calls[k] /\ storeFails(k, error)

UpdateDocFails ==
  \E k \in Calls, error \in StoreErrors :
    calls[k].pc = "updateDoc" /\ "raised" \notin DOMAIN calls[k] /\ storeFails(k, error)

NextFail ==
  InvokeVote \/ InvokeComment \/ GetDoc \/ UpdateDoc \/ GetDocFails \/ UpdateDocFails

SpecFail == InitConc /\ [][NextFail]_vars

\* The store rejected a call of the invocation.
failed(k) == "raised" \in DOMAIN calls[k]

\* C15: when getDoc or updateDoc fails during addComment or toggleCommentVote, the
\* invocation is rejected with the store's error, makes no further store call
\* and has written nothing: while every invocation made so far has failed, the
\* stored episodes are those stored before the first of them.
FailurePropagation ==
  /\ \A k \in Calls :
       failed(k) =>
         /\ calls[k].pc = "rejected"
         /\ calls[k].error = calls[k].raised
         /\ ~wrote(k)
  /\ (\A k \in Calls : failed(k) \/ calls[k].pc = "idle") =>
       /\ version = 0
       /\ \A c \in StoredComments(stories) :
            c.id \in {"c1", "c2"} /\ c.likes = <<>> /\ c.dislikes = <<>>

\* C15 witness: one invocation was rejected at getDoc and one at updateDoc, the
\* latter with a vote computed that the store does not hold.
FailurePropagationWitness ==
  \E a, b \in Calls :
    /\ failed(a) /\ "episodes" \notin DOMAIN calls[a]
    /\ failed(b) /\ "episodes" \in DOMAIN calls[b]
    /\ calls[a].error # calls[b].error
    /\ calls[b].op = "toggleCommentVote"
    /\ calls[b].episodes # EpisodesStored
    /\ version = 0

\* ------------------------------------------------------------- SpecView
\* One StoryView mounted on /story/s1/episode/<episodeId> for a signed-in user or
\* for nobody: the fetch effect, the view-increment effect and the handlers
\* handleVote, handleComment and handleLike, over the store of SpecConc.
\* The calls the mounted component can make: the slots of `calls`.
Session == DOMAIN calls

\* user of useAuth() when nobody is signed in; a signed-in user is its id.
Nobody == 0

\* story and activeEpisode are <<>> for null and <<record>> otherwise.
None == <<>>

\* The author of story s1 (Story.authorId).
authorId(storyId) == 1

\* What the comment form can hold: text, or blanks only.
Contents == {"text", "  "}

trim(content) == IF content = "  " THEN "" ELSE content

\* userVisibleEpisodes of fetchStoryData.
visibleEpisodes(eps, user) ==
  SelectSeq(eps, LAMBDA ep :
    \/ ep.status = "published"
    \/ /\ user # Nobody
       /\ (UserRole(user) = "ADMIN" \/ user = authorId("s1")))

\* userVisibleEpisodes.find(e => e.id === episodeId), None when there is none.
find(eps, episodeId) ==
  IF \E i \in 1..Len(eps) : eps[i].id = episodeId
    THEN <<eps[CHOOSE i \in 1..Len(eps) :
                 eps[i].id = episodeId /\ \A j \in 1..(i - 1) : eps[j].id # episodeId]>>
    ELSE None

\* The component is mounted with isLoading = true and the fetch effect has called
\* fetchStoryData; the store holds comment c1 of user 1 on episode e1.
InitView ==
  /\ stories = [s \in {"s1"} |->
                  [episodes |->
                     <<[Episode("e1", "published") EXCEPT !.comments =
                          <<NewComment(CommentData("e1", 1, Null), "c1", 1)>>],
                       Episode("e2", "draft")>>]]
  /\ issued = {"c1"}
  /\ now = 1
  /\ last = NoCall
  /\ twice = NoCall
  /\ toggled = {}
  /\ calls = [k \in 1..ViewCalls |-> Idle]
  /\ version = 0
  /\ InitNoTree
  /\ \E user \in {Nobody} \cup Users, episodeId \in EpisodeIds :
       view = [mounted |-> TRUE, user |-> user, episodeId |-> episodeId,
               isLoading |-> TRUE, error |-> FALSE, story |-> None,
               activeEpisode |-> None, visibleEpisodes |-> <<>>,
               fetching |-> 1, returned |-> "none"]

\* A StorageService method is called with story id s1: it runs up to `await getDoc`.
invoke(k, call) ==
  /\ canInvoke(k)
  /\ calls' = [calls EXCEPT ![k] =
                 [field \in DOMAIN call \cup {"pc", "storyId"} |->
                    CASE field = "pc" -> "getDoc"
                      [] field = "storyId" -> "s1"
                      [] OTHER -> call[field]]]

\* Variant of incrementsView for an effect whose dependencies lack isLoading: it
\* runs at mount only, while isLoading is true.
incrementsViewAtMountOnly(wasLoading, isLoading) == FALSE

\* The effect on [storyId, episodeId, isLoading] runs when isLoading has changed
\* and calls incrementEpisodeView if (storyId && episodeId && !isLoading).
incrementsView(wasLoading, isLoading) == wasLoading # isLoading /\ ~isLoading

\* getStoryById resolves inside a fetchStoryData that was called with `user` and
\* `episodeId`: visibleEpisodes, story, activeEpisode and error are set and
\* isLoading becomes false; `current` is the state it finds. When isLoading
\* changes to false the effect on [storyId, episodeId, isLoading] calls
\* incrementEpisodeView without awaiting it.
fetchResolvesFrom(current, user, episodeId) ==
  LET foundStory == Snapshot(stories, "s1")
      visible == visibleEpisodes(foundStory.episodes, user)
      foundEp == find(visible, episodeId)
      shown == [current EXCEPT !.fetching = @ - 1, !.isLoading = FALSE]
      found == [shown EXCEPT !.story = <<[id |-> "s1", episodes |-> foundStory.episodes]>>,
                             !.visibleEpisodes = visible]
  IN /\ view.fetching > 0
     /\ view' = IF ~foundStory.exists
                  THEN [shown EXCEPT !.story = None, !.activeEpisode = None, !.error = TRUE]
                  ELSE IF foundEp = None
                    THEN [found EXCEPT !.error = TRUE]
                    ELSE [found EXCEPT !.activeEpisode = foundEp]
     /\ IF incrementsView(view.isLoading, FALSE)
          THEN \E k \in Session :
                 invoke(k, [op |-> "incrementEpisodeView", episodeId |-> view.episodeId])
          ELSE calls' = calls
     /\ UNCHANGED <<stories, issued, now, last, twice, version, comments, forest, rendered, walk, app, toggled>>

\* The fetch of a view whose user and episodeId have not changed since it began.
fetchResolves == fetchResolvesFrom(view, view.user, view.episodeId)

\* The chapter view with its buttons and forms is on screen.
onScreen ==
  /\ ~view.isLoading
  /\ ~view.error
  /\ view.story # None
  /\ view.activeEpisode # None

\* Variant of canWrite that does not look at the user.
canWriteWithoutUser(user, story, activeEpisode) == story # None /\ activeEpisode # None

\* The guard of the handlers: if (!user || !story || !activeEpisode) return.
canWrite(user, story, activeEpisode) ==
  user # Nobody /\ story # None /\ activeEpisode # None

\* A handler returns at its guard.
returns(handler) ==
  /\ view' = [view EXCEPT !.returned = handler]
  /\ UNCHANGED <<stories, issued, now, last, twice, calls, version, comments, forest, rendered, walk, app, toggled>>

\* handleVote(commentId, voteType) up to `await StorageService.toggleCommentVote`.
handleVote(commentId, voteType) ==
  /\ onScreen
  /\ IF canWrite(view.user, view.story, view.activeEpisode)
       THEN /\ \E k \in Session :
                 invoke(k, [op |-> "toggleCommentVote", episodeId |-> view.activeEpisode[1].id,
                            commentId |-> commentId, userId |-> view.user,
                            voteType |-> voteType])
            /\ UNCHANGED <<stories, issued, now, last, twice, version, comments, forest,
                           rendered, view, walk, app, toggled>>
       ELSE returns("handleVote")

\* handleComment(e, parentId) up to `await StorageService.addComment`; addComment
\* builds newComment before its own `await getDoc`.
handleComment(content, parentId) ==
  /\ onScreen
  /\ IF canWrite(view.user, view.story, view.activeEpisode) /\ trim(content) # ""
       THEN /\ \E k \in Session :
                 /\ IdOf(k) \notin issued
                 /\ issued' = issued \cup {IdOf(k)}
                 /\ invoke(k, [op |-> "addComment", episodeId |-> view.activeEpisode[1].id,
                               commentId |-> IdOf(k),
                               newComment |->
                                 NewComment(CommentData(view.activeEpisode[1].id, view.user,
                                                        parentId), IdOf(k), now)])
            /\ UNCHANGED <<stories, now, last, twice, version, comments, forest, rendered,
                           view, walk, app, toggled>>
       ELSE returns("handleComment")

\* handleLike up to `await StorageService.toggleLike`.
handleLike ==
  /\ onScreen
  /\ IF canWrite(view.user, view.story, view.activeEpisode)
       THEN /\ \E k \in Session :
                 invoke(k, [op |-> "toggleLike", episodeId |-> view.activeEpisode[1].id,
                            userId |-> view.user])
            /\ UNCHANGED <<stories, issued, now, last, twice, version, comments, forest,
                           rendered, view, walk, app, toggled>>
       ELSE returns("handleLike")

\* The promise of a finished invocation settles.
Settled == [pc |-> "settled"]

\* The awaited method resolves and the handler goes on: setRefreshTrigger runs the
\* fetch effect again, which sets isLoading and calls getStoryById. Nothing
\* awaits incrementEpisodeView: its promise settles unobserved.
resumes(k) ==
  /\ calls[k].pc = "done"
  /\ calls' = [calls EXCEPT ![k] = Settled]
  /\ view' = IF calls[k].op = "incrementEpisodeView" THEN view
             ELSE [view EXCEPT !.isLoading = TRUE, !.error = FALSE, !.fetching = @ + 1]
  /\ UNCHANGED <<stories, issued, now, last, twice, version, comments, forest, rendered, walk, app, toggled>>

\* The signed-in user votes on comment c1 in another session (another tab or
\* device): that session's toggleCommentVote reads and writes the document.
elsewhere(voteType) ==
  /\ view.user # Nobody
  /\ stories' = Updated(stories, "s1",
                        voteEpisodes(stories["s1"].episodes, "e1", "c1", view.user, voteType))
  /\ UNCHANGED <<issued, now, last, twice, calls, version, comments, forest, rendered, view, walk, app, toggled>>

FetchResolves == fetchResolves

HandleVote ==
  \E commentId \in {c.id : c \in members(view.activeEpisode[1].comments)},
     voteType \in VoteTypes : handleVote(commentId, voteType)

HandleComment ==
  \E content \in Contents,
     parentId \in {Null} \cup {c.id : c \in members(view.activeEpisode[1].comments)} :
    handleComment(content, parentId)

HandleLike == handleLike

Resumes == \E k \in Session : resumes(k)

\* The other session presses like on c1.
Elsewhere == elsewhere("like")

StoreReads == \E k \in Session : getDoc(k)

StoreWrites == \E k \in Session : updateDoc(k)

NextView ==
  \/ FetchResolves
  \/ (onScreen /\ HandleVote)
  \/ (onScreen /\ HandleComment)
  \/ HandleLike
  \/ Resumes
  \/ StoreReads
  \/ StoreWrites

SpecView == InitView /\ [][NextView]_vars

\* ------------------------------------------------------------- SpecReload
\* The StoryView of the story's author on episode e1 with room for one call more
\* than SpecView: the view increment of the reload that follows a handler.
InitReload ==
  /\ stories = [s \in {"s1"} |->
                  [episodes |->
                     <<[Episode("e1", "published") EXCEPT !.comments =
                          <<NewComment(CommentData("e1", 1, Null), "c1", 1)>>],
                       Episode("e2", "draft")>>]]
  /\ issued = {"c1"}
  /\ now = 1
  /\ last = NoCall
  /\ twice = NoCall
  /\ toggled = {}
  /\ calls = [k \in 1..(ViewCalls + 1) |-> Idle]
  /\ version = 0
  /\ InitNoTree
  /\ view = [mounted |-> TRUE, user |-> authorId("s1"), episodeId |-> "e1",
             isLoading |-> TRUE, error |-> FALSE, story |-> None,
             activeEpisode |-> None, visibleEpisodes |-> <<>>,
               fetching |-> 1, returned |-> "none"]

\* The user likes comment c1, posts a top-level comment or likes the episode.
LikeFirstComment == onScreen /\ handleVote("c1", "like")

PostComment == onScreen /\ handleComment("text", Null)

NextReload ==
  \/ FetchResolves
  \/ LikeFirstComment
  \/ PostComment
  \/ HandleLike
  \/ Resumes
  \/ StoreReads
  \/ StoreWrites

SpecReload == InitReload /\ [][NextReload]_vars

\* The slots in which a step makes a call of incrementEpisodeView.
incremented ==
  {k \in Session : /\ calls[k].pc = "idle"
                   /\ calls'[k].pc = "getDoc"
                   /\ calls'[k].op = "incrementEpisodeView"
                   /\ calls'[k].episodeId = view.episodeId}

\* C27: every change of isLoading from true to false makes one call of
\* incrementEpisodeView for the open episode, and no other step makes one; when
\* the call awaited by handleVote, handleComment or handleLike has resolved,
\* isLoading is true again with a fetch pending, so another view increment
\* follows each vote, comment or like.
ViewIncrementPerLoad ==
  [][/\ Cardinality(incremented) = IF view.isLoading /\ ~view'.isLoading THEN 1 ELSE 0
     /\ \A k \in Session :
          ( /\ calls[k].pc = "done"
            /\ calls'[k].pc = "settled"
            /\ calls[k].op # "incrementEpisodeView" )
          => view'.isLoading /\ view'.fetching = view.fetching + 1]_vars

\* C27 witness: the user's vote has resolved, the page has loaded again and the
\* second view increment of the episode has been written.
ViewIncrementPerLoadWitness ==
  /\ ~view.isLoading
  /\ \E i \in 1..Len(EpisodesStored) :
       /\ EpisodesStored[i].id = "e1"
       /\ EpisodesStored[i].views = 2
       /\ \E j \in 1..Len(EpisodesStored[i].comments) :
            EpisodesStored[i].comments[j].likes = <<1>>


\* ------------------------------------------------------------- SpecStale
\* The StoryView of the story's author on episode e1, who votes and comments
\* while a second session of the same user votes on comment c1.
InitStale == InitView /\ view.user = authorId("s1") /\ view.episodeId = "e1"

NextStale ==
  \/ FetchResolves
  \/ (onScreen /\ HandleVote)
  \/ (onScreen /\ HandleComment)
  \/ Resumes
  \/ Elsewhere
  \/ StoreReads
  \/ StoreWrites

SpecStale == InitStale /\ [][NextStale]_vars

\* The invocations of the session the store has not finished.
inFlight == {k \in Session : calls[k].pc \in {"getDoc", "updateDoc"}}

\* C11: every read-modify-write of the session is issued after the one before it
\* has resolved: at no time are two of them in flight.
SessionOperationsSerial == Cardinality(inFlight) <= 1

\* The handler of the session's signed-out user has returned at its guard and
\* the view increment is the only call made.
onlyViewIncrements ==
  \A k \in Session :
    calls[k].pc \in {"getDoc", "updateDoc", "done"} => calls[k].op = "incrementEpisodeView"

\* C16: while nobody is signed in, handleVote, handleComment and handleLike call
\* no StorageService method, so no vote, comment or like is stored for the session.
AnonymousCannotWrite ==
  view.user = Nobody =>
    /\ onlyViewIncrements
    /\ \A i \in 1..Len(EpisodesStored) : EpisodesStored[i].likes = <<>>
    /\ \A c \in StoredComments(stories) :
         c.id = "c1" /\ c.likes = <<>> /\ c.dislikes = <<>>

\* C16 witness: nobody is signed in, the view increment has been written and
\* handleVote has been called and has returned.
AnonymousCannotWriteWitness ==
  /\ view.user = Nobody
  /\ view.returned = "handleVote"
  /\ \E k \in Session : wrote(k) /\ EpisodesStored = calls[k].episodes

\* The comment an invocation is about in the episodes array it computed.
inComputed(a) ==
  Found([s \in {calls[a].storyId} |-> [episodes |-> calls[a].episodes]],
        calls[a].storyId, calls[a].episodeId, calls[a].commentId)

\* The comment an invocation is about as the component shows it.
onDisplay(a) ==
  Found([s \in {calls[a].storyId} |-> [episodes |-> view.story[1].episodes]],
        calls[a].storyId, calls[a].episodeId, calls[a].commentId)

\* C19: what toggleCommentVote and addComment write is computed from the snapshot
\* their own getDoc returned: a vote toggles the membership that snapshot holds,
\* a comment is appended to the comments that snapshot holds, whatever the
\* component shows.
ReadsCurrentState ==
  \A k \in Session :
    "snapshot" \in DOMAIN calls[k] =>
      /\ calls[k].op = "toggleCommentVote" =>
           inComputed(k) = {toggleVote(before, calls[k].userId, calls[k].voteType) :
                              before \in inSnapshot(k)}
      /\ calls[k].op = "addComment" =>
           \A i \in 1..Len(calls[k].snapshot) :
             calls[k].episodes[i].comments =
               IF calls[k].snapshot[i].id = calls[k].episodeId
                 THEN Append(calls[k].snapshot[i].comments, calls[k].newComment)
                 ELSE calls[k].snapshot[i].comments

\* C19 witness: the user's vote has been written; the component showed the user
\* outside the voted array, the snapshot held the user inside it, and the stored
\* comment has the user removed.
ReadsCurrentStateWitness ==
  \E k \in Session :
    /\ wrote(k)
    /\ calls[k].op = "toggleCommentVote"
    /\ \A shown \in onDisplay(k) : standing(shown, calls[k].userId) = "none"
    /\ \A before \in inSnapshot(k) : standing(before, calls[k].userId) = calls[k].voteType
    /\ \A stored \in inStore(k) : standing(stored, calls[k].userId) = "none"
    /\ inStore(k) # {}

\* ------------------------------------------------------------- claims on Spec, continued
\* The episodes of story s1 before the last call and now.
EpisodesBefore == last.before["s1"].episodes

EpisodesNow == EpisodesStored

\* C12: addComment on an existing story and episode appends one comment to that
\* episode, with an id no stored comment has, empty likes and dislikes and the
\* caller's episodeId, userId, username, userRole, content and parentId; the
\* comments stored before keep their order and content.
AddCommentAppends ==
  (last.op = "addComment" /\ last.storyId = "s1" /\ last.episodeId \in EpisodeIds) =>
    /\ Len(EpisodesNow) = Len(EpisodesBefore)
    /\ \A c \in StoredComments(last.before) : c.id # last.commentId
    /\ \A i \in 1..Len(EpisodesBefore) :
         IF EpisodesBefore[i].id # last.episodeId
           THEN EpisodesNow[i] = EpisodesBefore[i]
           ELSE LET old == EpisodesBefore[i].comments
                    new == EpisodesNow[i].comments
                    added == new[Len(new)]
                IN /\ Len(new) = Len(old) + 1
                   /\ SubSeq(new, 1, Len(old)) = old
                   /\ [EpisodesNow[i] EXCEPT !.comments = old] = EpisodesBefore[i]
                   /\ added.id = last.commentId
                   /\ added.likes = <<>> /\ added.dislikes = <<>>
                   /\ added.episodeId = last.commentData.episodeId
                   /\ added.userId = last.commentData.userId
                   /\ added.username = last.commentData.username
                   /\ added.userRole = last.commentData.userRole
                   /\ added.content = last.commentData.content
                   /\ added.parentId = last.commentData.parentId

\* C12 witness: a reply has just been added behind a comment that carries a vote.
AddCommentAppendsWitness ==
  /\ last.op = "addComment"
  /\ last.commentData.parentId # Null
  /\ \E i \in 1..Len(EpisodesNow) :
       /\ Len(EpisodesNow[i].comments) = 2
       /\ EpisodesNow[i].comments[1].likes # <<>>
       /\ EpisodesNow[i].comments[2].id = last.commentId

\* C13: when every reply is made to a comment that exists, following parentId
\* from any stored comment reaches null: the parentId relation has no cycle.
Acyclicity ==
  \A i \in 1..Len(EpisodesNow) :
    LET cs == EpisodesNow[i].comments
    IN \A j \in 1..Len(cs) : reachesNull(cs, cs[j].parentId, Len(cs))

\* C13 witness: a reply to a stored comment is stored and a vote was given since.
AcyclicityWitness ==
  /\ last.op = "toggleCommentVote"
  /\ \E c \in StoredComments(stories), d \in StoredComments(stories) : c.parentId = d.id

\* The collection with the likes and dislikes of one comment emptied.
votesErased(coll, storyId, episodeId, commentId) ==
  IF storyId \notin DOMAIN coll THEN coll
  ELSE [coll EXCEPT ![storyId].episodes =
          [i \in 1..Len(@) |->
             IF @[i].id # episodeId THEN @[i]
             ELSE [@[i] EXCEPT !.comments =
                     [j \in 1..Len(@) |->
                        IF @[j].id # commentId THEN @[j]
                        ELSE [@[j] EXCEPT !.likes = <<>>, !.dislikes = <<>>]]]]]

\* C14: toggleCommentVote changes nothing but the likes and dislikes of the
\* comment with the given id in the given episode: the comment's other fields,
\* every other comment and every other episode field stay as they were.
FrameOfVote ==
  last.op = "toggleCommentVote" =>
    votesErased(stories, last.storyId, last.episodeId, last.commentId)
      = votesErased(last.before, last.storyId, last.episodeId, last.commentId)

\* C14 witness: a vote has just changed one comment while the other comment of
\* the episode carries a vote of its own.
FrameOfVoteWitness ==
  /\ last.op = "toggleCommentVote"
  /\ stories # last.before
  /\ \E c \in StoredComments(stories) :
       c.id # last.commentId /\ c.likes # <<>> /\ c \in StoredComments(last.before)

\* C21: when a vote adds the user to likes (or dislikes), the user becomes the
\* last element of that array; the other users of both arrays keep their
\* membership and their order.
AddingVoteAppends ==
  last.op = "toggleCommentVote" =>
    \A old \in LastBefore, new \in LastAfter :
      ~includes(voted(old, last.voteType), last.userId) =>
        /\ voted(new, last.voteType) = voted(old, last.voteType) \o <<last.userId>>
        /\ opposite(new, last.voteType) =
             SelectSeq(opposite(old, last.voteType), LAMBDA id : id # last.userId)

\* C21 witness: likes [1], dislikes [2] and user 1 disliking gave likes [] and
\* dislikes [2, 1].
AddingVoteAppendsWitness ==
  /\ last.op = "toggleCommentVote" /\ last.voteType = "dislike" /\ last.userId = 1
  /\ \E old \in LastBefore, new \in LastAfter :
       /\ old.likes = <<1>> /\ old.dislikes = <<2>>
       /\ new.likes = <<>> /\ new.dislikes = <<2, 1>>

\* ------------------------------------------------------------- SpecUnknown
\* The calls of Spec together with addComment calls that name no story or no
\* episode of the story.
UnknownEpisodes == {<<"s404", "e1">>, <<"s1", "e404">>}

UnknownAddCommentStep ==
  \E target \in UnknownEpisodes, id \in CommentIds :
    addComment(target[1], target[2], CommentData(target[2], 1, Null), id)

NextUnknown == Next \/ UnknownAddCommentStep

SpecUnknown == Init /\ [][NextUnknown]_vars

\* The last call named a story, an episode or a comment the store did not hold.
lastTargetUnknown ==
  /\ last.op # "none"
  /\ \/ last.storyId \notin DOMAIN last.before
     \/ \A i \in 1..Len(last.before[last.storyId].episodes) :
          last.before[last.storyId].episodes[i].id # last.episodeId
     \/ last.op = "toggleCommentVote" /\ LastBefore = {}

\* C25: when the story document does not exist, no episode has the episodeId or,
\* for a vote, no comment has the commentId, addComment and toggleCommentVote
\* leave the whole collection as it was: no stored comment changes and the new
\* comment is stored nowhere.
UnknownTargetsAreNoOps ==
  lastTargetUnknown =>
    /\ stories = last.before
    /\ \A c \in StoredComments(stories) : last.op = "addComment" => c.id # last.commentId

\* C25 witness: an addComment naming no episode of the story has just returned
\* and the store holds a comment with a vote.
UnknownTargetsAreNoOpsWitness ==
  /\ last.op = "addComment"
  /\ last.storyId = "s1" /\ last.episodeId = "e404"
  /\ \E c \in StoredComments(stories) : c.likes # <<>>


-----------------------------------------------------------------------------
\* SpecRoute: the App component and its routes.  The App shows a spinner
\* until the first auth callback; after that every render evaluates the
\* route of the current location for the current user, and a Navigate
\* element replaces the location and renders again.

UserRoles == {"READER", "AUTHOR", "ADMIN"}

\* A signed-in user of the App; currentUser is None or <<SignedIn(..)>>.
SignedIn(id, role) == [id |-> id, role |-> role]

CurrentUsers == {None} \cup {<<SignedIn(id, role)>> : id \in Users, role \in UserRoles}

Navigate(to) == [kind |-> "Navigate", to |-> to]

Element(name) == [kind |-> "Element", to |-> name]

\* ProtectedRoute that lets an ADMIN into every protected route.
ProtectedRouteAdminEverywhere(user, allowedRoles, element) ==
  IF user = None THEN Navigate("/auth")
  ELSE IF user[1].role \notin allowedRoles /\ user[1].role # "ADMIN" THEN Navigate("/")
  ELSE element

ProtectedRoute(user, allowedRoles, element) ==
  IF user = None THEN Navigate("/auth")
  ELSE IF user[1].role \notin allowedRoles THEN Navigate("/")
  ELSE element

\* The protected routes: path, allowedRoles, element.
ProtectedRoutes ==
  [path \in {"/author-studio", "/admin", "/admin/novels", "/admin/authors", "/admin/reports"} |->
     CASE path = "/author-studio" -> [allowedRoles |-> {"AUTHOR"}, element |-> Element("AuthorStudio")]
       [] path = "/admin"         -> [allowedRoles |-> {"ADMIN"}, element |-> Element("AdminDashboard")]
       [] path = "/admin/novels"  -> [allowedRoles |-> {"ADMIN"}, element |-> Element("ManageNovelsPage")]
       [] path = "/admin/authors" -> [allowedRoles |-> {"ADMIN"}, element |-> Element("ManageAuthorsPage")]
       [] path = "/admin/reports" -> [allowedRoles |-> {"ADMIN"}, element |-> Element("SiteAuthorReportPage")]]

\* The public routes and their elements.
PublicRoutes ==
  [path \in {"/", "/story/s1", "/story/s1/episode/e1", "/author/1", "/novels", "/chapters",
             "/novels/ongoing", "/novels/completed", "/privacy-policy"} |->
     CASE path = "/"                     -> Element("HomePage")
       [] path = "/story/s1"             -> Element("StoryView")
       [] path = "/story/s1/episode/e1"  -> Element("StoryView")
       [] path = "/author/1"             -> Element("AuthorPage")
       [] path = "/novels"               -> Element("AllNovelsPage")
       [] path = "/chapters"             -> Element("AllChaptersPage")
       [] path = "/novels/ongoing"       -> Element("AllOngoingNovelsPage")
       [] path = "/novels/completed"     -> Element("AllCompletedNovelsPage")
       [] path = "/privacy-policy"       -> Element("PrivacyPolicyPage")]

\* The locations a visitor can ask for; "/nowhere" matches only path="*".
Paths == DOMAIN PublicRoutes \cup DOMAIN ProtectedRoutes \cup {"/auth", "/nowhere"}

\* <Routes>: the element of the route that matches the location.
Routes(currentUser, path) ==
  IF path \in DOMAIN PublicRoutes THEN PublicRoutes[path]
  ELSE IF path = "/auth"
    THEN IF currentUser # None THEN Navigate("/") ELSE Element("AuthPage")
  ELSE IF path \in DOMAIN ProtectedRoutes
    THEN ProtectedRoute(currentUser, ProtectedRoutes[path].allowedRoles, ProtectedRoutes[path].element)
  ELSE Navigate("/")

\* Rendering a location: a Navigate element replaces the location and the
\* routes render again, until an element is on screen.
RECURSIVE renderRoutes(_, _)
renderRoutes(currentUser, path) ==
  LET element == Routes(currentUser, path)
  IN IF element.kind = "Navigate"
       THEN renderRoutes(currentUser, element.to)
       ELSE [path |-> path, shown |-> element.to]

\* The App is mounted at some location; isLoading starts true, currentUser null.
InitRoute ==
  /\ InitStore
  /\ InitIdle
  /\ comments = <<>>
  /\ forest = <<>>
  /\ rendered = FALSE
  /\ walk = NoWalk
  /\ \E path \in Paths :
       app = [mounted |-> TRUE, isLoading |-> TRUE, currentUser |-> None,
              asked |-> path, path |-> path, shown |-> "spinner"]

\* The auth callback: setCurrentUser(user); setIsLoading(false); the routes
\* render for the current location.
onAuthChange(user) ==
  /\ app' = [app EXCEPT !.isLoading = FALSE, !.currentUser = user, !.asked = app.path,
                        !.path = renderRoutes(user, app.path).path,
                        !.shown = renderRoutes(user, app.path).shown]
  /\ UNCHANGED <<stories, issued, now, last, twice, calls, version, comments, forest, rendered, view, walk, toggled>>

\* The visitor follows a link or types a location.
navigate(path) ==
  /\ ~app.isLoading
  /\ app' = [app EXCEPT !.asked = path,
                        !.path = renderRoutes(app.currentUser, path).path,
                        !.shown = renderRoutes(app.currentUser, path).shown]
  /\ UNCHANGED <<stories, issued, now, last, twice, calls, version, comments, forest, rendered, view, walk, toggled>>

OnAuthChange == \E user \in CurrentUsers : onAuthChange(user)

NavigateTo == \E path \in Paths : navigate(path)

NextRoute ==
  \/ OnAuthChange
  \/ NavigateTo

SpecRoute == InitRoute /\ [][NextRoute]_vars

\* The role of the current user, "none" when nobody is signed in.
roleNow == IF app.currentUser = None THEN "none" ELSE app.currentUser[1].role

\* C28: ProtectedRoute renders its element only for a signed-in user whose
\* role is in allowedRoles; for a protected location a null user ends on
\* /auth and a signed-in user with another role ends on /; so the four
\* admin pages are on screen only for an ADMIN and the author studio only
\* for an AUTHOR, never for an ADMIN.
RoleGatedRouting ==
  /\ \A user \in CurrentUsers : \A path \in DOMAIN ProtectedRoutes :
       LET route == ProtectedRoutes[path]
           out == ProtectedRoute(user, route.allowedRoles, route.element)
       IN /\ out = route.element <=> (user # None /\ user[1].role \in route.allowedRoles)
          /\ user = None => out = Navigate("/auth")
          /\ (user # None /\ user[1].role \notin route.allowedRoles) => out = Navigate("/")
  /\ (~app.isLoading /\ app.asked \in DOMAIN ProtectedRoutes) =>
       IF app.currentUser = None
         THEN app.path = "/auth" /\ app.shown = "AuthPage"
       ELSE IF roleNow \notin ProtectedRoutes[app.asked].allowedRoles
         THEN app.path = "/" /\ app.shown = "HomePage"
       ELSE app.path = app.asked /\ app.shown = ProtectedRoutes[app.asked].element.to
  /\ app.shown \in {"AdminDashboard", "ManageNovelsPage", "ManageAuthorsPage", "SiteAuthorReportPage"}
       => roleNow = "ADMIN"
  /\ app.shown = "AuthorStudio" => roleNow = "AUTHOR"

\* An ADMIN asked for the author studio and is on the home page instead.
RoleGatedRoutingWitness ==
  /\ ~app.isLoading
  /\ app.asked = "/author-studio"
  /\ roleNow = "ADMIN"
  /\ app.shown = "HomePage"

-----------------------------------------------------------------------------
\* SpecDraft: a StoryView that stays mounted while the user prop changes
\* (logout, or a sign-in in another tab).  The fetch effect depends on
\* `user` and has no cleanup, so every fetchStoryData that was started
\* resolves, each with the user and episodeId of the render that started it.

\* How many fetchStoryData calls can be awaiting getStoryById at once.
MaxFetches == 2

\* The users a StoryView can be rendered for.
Viewers == {Nobody} \cup Users \cup {Admin}

\* user && (user.role === 'ADMIN' || user.id === foundStory.authorId)
privileged(user) ==
  user # Nobody /\ (UserRole(user) = "ADMIN" \/ user = authorId("s1"))

\* What a running fetchStoryData closes over.
Closure(user, episodeId) == [user |-> user, episodeId |-> episodeId]

InitDraft ==
  /\ InitStore
  /\ calls = [k \in 1..ViewCalls |-> Idle]
  /\ version = 0
  /\ InitNoTree
  /\ \E user \in Viewers, episodeId \in EpisodeIds :
       view = [mounted |-> TRUE, user |-> user, episodeId |-> episodeId,
               isLoading |-> TRUE, error |-> FALSE, story |-> None,
               activeEpisode |-> None, visibleEpisodes |-> <<>>,
               fetching |-> 1, returned |-> "none",
               closures |-> <<Closure(user, episodeId)>>]

\* The App renders StoryView with another user: the fetch effect runs again,
\* sets isLoading, clears error and calls getStoryById.
userChanges(user) ==
  /\ user # view.user
  /\ view.fetching < MaxFetches
  /\ view' = [view EXCEPT !.user = user, !.isLoading = TRUE, !.error = FALSE,
                          !.fetching = @ + 1,
                          !.closures = Append(@, Closure(user, view.episodeId))]
  /\ UNCHANGED <<stories, issued, now, last, twice, calls, version, comments, forest, rendered, walk, app, toggled>>

\* The fetches that go on running when fetch i has resolved.
running(closures, i) == SubSeq(closures, 1, i - 1) \o SubSeq(closures, i + 1, Len(closures))

\* One of the running fetches gets its story.
closureResolves(i) ==
  fetchResolvesFrom([view EXCEPT !.closures = running(@, i)],
                    view.closures[i].user, view.closures[i].episodeId)

UserChanges == \E user \in Viewers : userChanges(user)

ClosureResolves == \E i \in DOMAIN view.closures : closureResolves(i)

NextDraft ==
  \/ UserChanges
  \/ ClosureResolves
  \/ StoreReads
  \/ StoreWrites
  \/ Resumes

SpecDraft == InitDraft /\ [][NextDraft]_vars

drafts(eps) == {ep \in members(eps) : ep.status = "draft"}

\* C29: once loading is over, visibleEpisodes holds a draft episode, or the
\* chapter on screen is a draft episode, only if the current user is an
\* ADMIN or the author of the story.
DraftsStayHidden ==
  ~view.isLoading =>
    /\ drafts(view.visibleEpisodes) # {} => privileged(view.user)
    /\ (~view.error /\ drafts(view.activeEpisode) # {}) => privileged(view.user)

-----------------------------------------------------------------------------
\* SpecLike: toggleLike calls made one after the other on the episodes that
\* createEpisode stored with likes = []; episode e1 carries a comment.

InitLike ==
  /\ stories = [s \in {"s1"} |->
                  [episodes |->
                     <<[Episode("e1", "published") EXCEPT !.comments =
                          <<NewComment(CommentData("e1", 1, Null), "c1", 1)>>],
                       Episode("e2", "draft")>>]]
  /\ issued = {"c1"}
  /\ now = 1
  /\ last = NoCall
  /\ twice = NoCall
  /\ toggled = {}
  /\ InitIdle
  /\ InitNoTree

\* StorageService.toggleLike, run from getDoc to the end of updateDoc.
toggleLike(storyId, episodeId, userId) ==
  LET storyDoc == Snapshot(stories, storyId)
  IN /\ stories' = IF storyDoc.exists
                     THEN Updated(stories, storyId,
                                  likeEpisodes(storyDoc.episodes, episodeId, userId))
                     ELSE stories
     /\ last' = [op |-> "toggleLike", storyId |-> storyId, episodeId |-> episodeId,
                 userId |-> userId, before |-> stories]
     /\ toggled' = IF <<episodeId, userId>> \in toggled
                     THEN toggled \ {<<episodeId, userId>>}
                     ELSE toggled \cup {<<episodeId, userId>>}
     /\ UNCHANGED <<issued, now, twice, calls, version, comments, forest, rendered, view, walk, app>>

ToggleLikeStep ==
  \E episodeId \in EpisodeIds \cup {NoSuchId}, userId \in Users :
    toggleLike("s1", episodeId, userId)

NextLike == ToggleLikeStep

SpecLike == InitLike /\ [][NextLike]_vars

\* The episode as it is with the likes it had before the last call.
withLikesOf(after, before) == [after EXCEPT !.likes = before.likes]

\* C30: after any sequence of toggleLike calls on episodes created with
\* likes = [], every user id occurs at most once in an episode's likes and is
\* there exactly when that user has toggled that episode an odd number of
\* times; the last toggleLike changed nothing but the likes of its episode.
LikeToggle ==
  /\ \A i \in 1..Len(EpisodesStored) : \A userId \in Users :
       /\ occurrences(EpisodesStored[i].likes, userId) <= 1
       /\ includes(EpisodesStored[i].likes, userId)
            <=> <<EpisodesStored[i].id, userId>> \in toggled
  /\ last.op = "toggleLike" =>
       /\ Len(EpisodesStored) = Len(EpisodesBefore)
       /\ \A i \in 1..Len(EpisodesStored) :
            /\ withLikesOf(EpisodesStored[i], EpisodesBefore[i]) = EpisodesBefore[i]
            /\ EpisodesStored[i].id # last.episodeId => EpisodesStored[i] = EpisodesBefore[i]

\* User 1 took back a like on episode e1 that user 2 had liked after them, while
\* episode e2 holds a like as well.
LikeToggleWitness ==
  /\ last.op = "toggleLike"
  /\ last.userId = 1
  /\ EpisodesBefore[1].likes = <<1, 2>>
  /\ EpisodesStored[1].likes = <<2>>
  /\ EpisodesStored[1].comments # <<>>
  /\ EpisodesStored[2].likes # <<>>
====
